---- MODULE Spec2Model ----
(***************************************************************************)
(* ProspectFinder.find_prospects (src/src/search/company_finder.py) as a   *)
(* state machine: QUERY_GEN -> COLLECT -> CLASSIFY -> (AUGMENT) -> RANK.   *)
(*                                                                         *)
(* The search API, the scraper and the LLM are the environment: every call *)
(* to one of them is answered by a nondeterministic choice among the       *)
(* answers the collaborator can give (raise, error status, malformed text, *)
(* well-formed value).                                                     *)
(*                                                                         *)
(* Strings.  A host name or domain is the sequence of its dot-separated    *)
(* labels (<<"www","acme","co","uk">> is "www.acme.co.uk"); a search query *)
(* is the sequence of its space-separated words.  Per-label facts (length, *)
(* lower-case form, suffix/prefix relations) are tabulated for the label   *)
(* alphabet of the model.                                                  *)
(***************************************************************************)
EXTENDS Integers, Sequences, FiniteSets, TLC

(***************************************************************************)
(* Sequence helpers (Python list / slice semantics)                        *)
(***************************************************************************)
Min(a, b) == IF a <= b THEN a ELSE b

Max(a, b) == IF a >= b THEN a ELSE b

\* s[:n] for any integer n (a negative n counts from the end)
Take(s, n) ==
    LET k == IF n >= 0 THEN Min(n, Len(s)) ELSE Max(Len(s) + n, 0)
    IN  SubSeq(s, 1, k)

\* s[-n:] for n >= 1
LastN(s, n) == SubSeq(s, Max(Len(s) - n, 0) + 1, Len(s))

Range(s) == {s[i] : i \in 1..Len(s)}

RECURSIVE SelectIdx(_, _, _)
\* the elements s[i], i >= from, whose index satisfies keep[i], in order
SelectIdx(s, keep, from) ==
    IF from > Len(s) THEN <<>>
    ELSE (IF keep[from] THEN <<s[from]>> ELSE <<>>) \o SelectIdx(s, keep, from + 1)

(***************************************************************************)
(* Label alphabet of host names and domains                                *)
(***************************************************************************)
\* filler labels of the bulk scenarios: c01.com .. c60.com come from search
SearchFill ==
    << "c01", "c02", "c03", "c04", "c05", "c06", "c07", "c08", "c09", "c10",
       "c11", "c12", "c13", "c14", "c15", "c16", "c17", "c18", "c19", "c20",
       "c21", "c22", "c23", "c24", "c25", "c26", "c27", "c28", "c29", "c30",
       "c31", "c32", "c33", "c34", "c35", "c36", "c37", "c38", "c39", "c40",
       "c41", "c42", "c43", "c44", "c45", "c46", "c47", "c48", "c49", "c50",
       "c51", "c52", "c53", "c54", "c55", "c56", "c57", "c58", "c59", "c60" >>

\* s01.com .. s22.com are suggested by the fallback generator
SuggestFill ==
    << "s01", "s02", "s03", "s04", "s05", "s06", "s07", "s08", "s09", "s10",
       "s11", "s12", "s13", "s14", "s15", "s16", "s17", "s18", "s19", "s20",
       "s21", "s22" >>

\* str.lower() of one label: only these labels hold upper-case letters
LowerLabel(l) ==
    CASE l = "WWW"  -> "www"
      [] l = "Acme" -> "acme"
      [] OTHER      -> l

\* len() of one label
LabelLen(l) ==
    CASE l = ""                                        -> 0
      [] l \in {"x"}                                   -> 1
      [] l \in {"co", "uk", "io", "us", "ai"}           -> 2
      [] l \in {"www", "WWW", "com", "gov", "org", "edu", "net", "mil",
                "xyz"}                                 -> 3
      [] l \in {"acme", "Acme", "beta", "shop", "city"} -> 4
      [] l \in {"clever"}                               -> 6
      [] l \in {"netflix"}                              -> 7
      [] l \in {"linkedin"}                             -> 8
      [] OTHER                                          -> 3

\* a is a suffix of label b (b.endswith(a)), for the labels of the alphabet
LabelEndsWith(b, a) ==
    \/ a = b
    \/ <<b, a>> \in { <<"netflix", "x">>, <<"clever", "lever">> }

\* a is a prefix of label b (b.startswith(a)), for the labels of the alphabet
LabelStartsWith(b, a) ==
    \/ a = b
    \/ <<b, a>> \in { <<"com", "co">>, <<"netflix", "net">> }

(***************************************************************************)
(* String operations on label sequences                                    *)
(***************************************************************************)
RECURSIVE SumLen(_)
SumLen(d) == IF d = <<>> THEN 0 ELSE LabelLen(Head(d)) + SumLen(Tail(d))

\* len(domain): the labels and the dots between them
StrLen(d) == IF d = <<>> THEN 0 ELSE SumLen(d) + (Len(d) - 1)

\* domain.lower()
Lower(d) == [i \in 1..Len(d) |-> LowerLabel(d[i])]

\* netloc.replace("www.", ""): every occurrence of the four characters
\* "www." goes; in the alphabet only the label "www" ends in "www", and an
\* occurrence needs a dot after it, so the last label stays
ReplaceWww(d) ==
    SelectIdx(d, [i \in 1..Len(d) |-> ~(d[i] = "www" /\ i < Len(d))], 1)

\* sub in d (Python substring test) for a dotted sub of two labels or more:
\* the dots of sub fall on dots of d, the first label of sub ends a label of
\* d, the last label of sub starts the label it falls on, the others are equal
Contains(d, sub) ==
    \E i \in 1..(Len(d) - Len(sub) + 1) :
        /\ LabelEndsWith(d[i], sub[1])
        /\ LabelStartsWith(d[i + Len(sub) - 1], sub[Len(sub)])
        /\ \A k \in 2..(Len(sub) - 1) : d[i + k - 1] = sub[k]

\* d.endswith("." + tld) for a single-label tld
EndsWithTld(d, tld) == Len(d) >= 2 /\ d[Len(d)] = tld

(***************************************************************************)
(* ProspectFinder.__init__: the blocklist                                  *)
(***************************************************************************)
BLOCKLIST ==
    { <<"linkedin", "com">>, <<"facebook", "com">>, <<"twitter", "com">>,
      <<"instagram", "com">>, <<"youtube", "com">>, <<"tiktok", "com">>,
      <<"pinterest", "com">>, <<"x", "com">>,
      <<"reuters", "com">>, <<"bloomberg", "com">>, <<"forbes", "com">>,
      <<"techcrunch", "com">>, <<"businessinsider", "com">>,
      <<"cnbc", "com">>, <<"wsj", "com">>, <<"nytimes", "com">>,
      <<"cnn", "com">>, <<"bbc", "com">>, <<"foxnews", "com">>,
      <<"crunchbase", "com">>, <<"glassdoor", "com">>, <<"indeed", "com">>,
      <<"yelp", "com">>, <<"g2", "com">>, <<"capterra", "com">>,
      <<"trustpilot", "com">>, <<"bbb", "org">>, <<"yellowpages", "com">>,
      <<"manta", "com">>,
      <<"github", "com">>, <<"gitlab", "com">>, <<"stackoverflow", "com">>,
      <<"npmjs", "com">>,
      <<"wikipedia", "org">>, <<"medium", "com">>, <<"quora", "com">>,
      <<"reddit", "com">>,
      <<"greenhouse", "io">>, <<"lever", "co">>, <<"workday", "com">>,
      <<"jobvite", "com">>, <<"ziprecruiter", "com">>, <<"monster", "com">>,
      <<"careerbuilder", "com">>,
      <<"sciencedirect", "com">>, <<"researchgate", "net">>,
      <<"academia", "edu">>, <<"springer", "com">>, <<"elsevier", "com">>,
      <<"clutch", "co">>, <<"goodfirms", "co">>, <<"toptal", "com">> }

\* _is_valid_domain: valid_tlds
ValidTlds ==
    {"com", "io", "co", "net", "org", "ai", "tech", "us", "ca", "uk", "de",
     "in", "biz"}

\* _is_valid_domain: the blocked endings
BlockedTlds == {"gov", "edu", "mil"}

\* _is_valid_domain: len(domain) < MinDomainLen is rejected
MinDomainLen == 4

(***************************************************************************)
(* _extract_domain and _is_valid_domain                                    *)
(***************************************************************************)
\* _extract_domain(url), given urlparse(url).netloc ("" = <<>> when the URL
\* has none, which is also what the bare except returns)
ExtractDomain(netloc) ==
    LET domain == Lower(ReplaceWww(netloc))
    IN  IF Len(domain) > 2 /\ domain[Len(domain) - 1] \notin {"co", "com"}
        THEN LastN(domain, 2)
        ELSE domain

\* the validator without its blocklist test
IsValidDomainUnblocked(domain) ==
    \E domain_lower \in {Lower(domain)} :
        /\ domain # <<>>
        /\ StrLen(domain) >= MinDomainLen
        /\ ~ \E t \in BlockedTlds : EndsWithTld(domain_lower, t)
        /\ \E tld \in ValidTlds : EndsWithTld(domain_lower, tld)

\* _is_valid_domain(domain)
IsValidDomain(domain) ==
    \E domain_lower \in {Lower(domain)} :
        /\ domain # <<>>
        /\ StrLen(domain) >= MinDomainLen
        /\ ~ \E blocked \in BLOCKLIST : Contains(domain_lower, blocked)
        /\ ~ \E t \in BlockedTlds : EndsWithTld(domain_lower, t)
        /\ \E tld \in ValidTlds : EndsWithTld(domain_lower, tld)

(***************************************************************************)
(* PHASE 1: _generate_search_queries and _llm_generate_queries             *)
(*                                                                         *)
(* An ICP is [industries, scope, regions, countries]: industries is        *)
(* customer_industry split at its commas, each piece already stripped      *)
(* (<<>> for a blank piece); regions is states_or_regions; countries is    *)
(* [present, v], the key being optional.  A term and a query are word      *)
(* sequences.                                                              *)
(***************************************************************************)
\* len() of one word of a query
WordLen(w) ==
    CASE w \in {"q"}                                  -> 1
      [] w \in {"top", "USA", "usa", "n01", "n02", "n03", "n04", "n05", "n06",
                "n07", "n08", "n09", "n10", "n11", "n12"} -> 3
      [] w \in {"with", "Ohio", "Utah", "Iowa"}        -> 4
      [] w \in {"Texas", "Maine", "Idaho"}             -> 5
      [] w \in {"retail", "Retail", "hotels", "mining", "pharma", "Canada",
                "Mexico", "Brazil"}                    -> 6
      [] w \in {"largest", "leading", "Leading", "grocery"} -> 7
      [] w \in {"companies", "logistics"}              -> 9
      [] w \in {"facilities"}                          -> 10
      [] w \in {"headquarters"}                        -> 12
      [] OTHER                                         -> 6

RECURSIVE SumWordLen(_)
SumWordLen(q) == IF q = <<>> THEN 0 ELSE WordLen(Head(q)) + SumWordLen(Tail(q))

\* len(q) of a query string: the words and the spaces between them
QueryLen(q) == IF q = <<>> THEN 0 ELSE SumWordLen(q) + (Len(q) - 1)

\* industries[:MaxIndustries]
MaxIndustries == 5

\* states_or_regions[:MaxRegions]
MaxRegions == 5

\* countries[:MaxCountries]
MaxCountries == 3

\* geo_terms[:GeoPerIndustry] inside the template loop
GeoPerIndustry == 2

\* _llm_generate_queries keeps strings with len(q) > MinQueryLen
MinQueryLen == 5

\* _llm_generate_queries keeps at most this many
MaxLlmQueries == 10

\* _generate_search_queries returns all_queries[:MaxQueries]
MaxQueries == 25

\* [x for x in s if keep(x)] written with the flags of the kept positions
Filter(s, keep) == CHOOSE r \in { SelectIdx(t, k, 1) : t \in {s}, k \in {keep} } : TRUE

\* industries = [ind.strip() for ind in customer_industry.split(',') if ind.strip()][:5]
Industries(icp) ==
    Take(Filter(icp.industries,
                [i \in 1..Len(icp.industries) |-> icp.industries[i] # <<>>]),
         MaxIndustries)

\* geo_terms, by scope
GeoTerms(icp) ==
    CASE icp.scope = "regional" -> Take(icp.regions, MaxRegions)
      [] icp.scope = "national" ->
            Take(IF icp.countries.present THEN icp.countries.v ELSE << <<"USA">> >>,
                 MaxCountries)
      [] OTHER -> <<>>

\* the queries the template loop emits for one industry
IndustryQueries(industry, geo_terms) ==
    LET g == Take(geo_terms, GeoPerIndustry)
    IN  << <<"largest">> \o industry \o <<"companies", "USA">>,
           <<"top">> \o industry \o <<"companies", "headquarters">>,
           <<"leading">> \o industry \o <<"companies">>,
           industry \o <<"companies", "with", "facilities">> >>
        \o [k \in 1..Len(g) |-> industry \o <<"companies">> \o g[k]]

RECURSIVE TemplateFrom(_, _, _)
TemplateFrom(industries, geo_terms, i) ==
    IF i > Len(industries) THEN <<>>
    ELSE IndustryQueries(industries[i], geo_terms)
         \o TemplateFrom(industries, geo_terms, i + 1)

\* template_queries
TemplateQueries(icp) == TemplateFrom(Industries(icp), GeoTerms(icp), 1)

\* every string of the answer, whatever its length and however many
LlmGenerateUnfiltered(resp) ==
    IF resp.kind = "list"
    THEN LET kept == Filter(resp.items, [i \in 1..Len(resp.items) |-> resp.items[i].str])
         IN  [k \in 1..Len(kept) |-> kept[k].text]
    ELSE <<>>

\* _llm_generate_queries, given the LLM's answer: [kind, items] with kind
\* "raise" (the call raises), "noarray" (no [...] span), "badjson" (the span
\* does not parse) or "list"; an item is [str, text]
LlmGenerateQueries(resp) ==
    IF resp.kind = "list"
    THEN LET kept == Filter(resp.items,
                        [i \in 1..Len(resp.items) |->
                            /\ resp.items[i].str
                            /\ QueryLen(resp.items[i].text) > MinQueryLen])
         IN  Take([k \in 1..Len(kept) |-> kept[k].text], MaxLlmQueries)
    ELSE <<>>

\* the last occurrence of every element, in order
DictFromKeysLast(s) ==
    Filter(s, [i \in 1..Len(s) |-> \A j \in (i + 1)..Len(s) : s[j] # s[i]])

\* list(dict.fromkeys(s)): the first occurrence of every element, in order
DictFromKeys(s) ==
    Filter(s, [i \in 1..Len(s) |-> \A j \in 1..(i - 1) : s[j] # s[i]])

\* the combined list without the final slice
GenerateUntruncated(icp, resp) ==
    DictFromKeys(TemplateQueries(icp) \o LlmGenerateQueries(resp))

\* _generate_search_queries(icp_data), given the LLM's answer
GenerateSearchQueries(icp, resp) ==
    Take(DictFromKeys(TemplateQueries(icp) \o LlmGenerateQueries(resp)), MaxQueries)

(***************************************************************************)
(* PHASE 3: _classify_company                                              *)
(*                                                                         *)
(* The LLM's answer to a classification prompt is                          *)
(*   [kind, msg, q, conf, reason, wbr]                                     *)
(* kind: "raise" (the call raises; msg is str(e): "empty" or "other"),     *)
(*       "nobrace" (no {...} span), "badjson" (the span does not parse),   *)
(*       "json" (a JSON object);                                           *)
(* q:    is_qualified_prospect: "absent", "true", "false";                 *)
(* conf: confidence: [k, v], k "absent", "num" (the number v) or "bad" (a  *)
(*       JSON value that does not compare with a number: a string, null);  *)
(* reason: rejection_reason: "absent", "null", "empty", or a string put in *)
(*       its class: "geo" (holds "geography" or "location"), "industry"    *)
(*       (holds "industry" and neither of those), "other";                 *)
(* wbr:  would_buy_reasoning: "absent", "null" or "text".                  *)
(* A verdict (the dict _classify_company returns) is [q, conf, reason,     *)
(* wbr] with q a Boolean and the same conf, reason and wbr classes.        *)
(* company_name, what_they_do and the other free-text fields are read by   *)
(* no decision and are left out.                                           *)
(***************************************************************************)
\* result["confidence"] = DefaultConfidence when the key is missing
DefaultConfidence == 50

Num(v) == [k |-> "num", v |-> v]

\* _default_classification(reason)
DefaultClassification(reason) ==
    [q |-> FALSE, conf |-> Num(0), reason |-> reason, wbr |-> "absent"]

\* _classify_company taking a missing is_qualified_prospect as true
ClassifyCompanyLenient(resp) ==
    CASE resp.kind = "nobrace" -> DefaultClassification("other")
      [] resp.kind = "badjson" -> DefaultClassification("other")
      [] resp.kind = "raise"   -> DefaultClassification(resp.msg)
      [] OTHER ->
            [q      |-> resp.q # "false",
             conf   |-> IF resp.conf.k = "absent" THEN Num(DefaultConfidence)
                        ELSE resp.conf,
             reason |-> resp.reason,
             wbr    |-> resp.wbr]

\* _classify_company, given the LLM's answer
ClassifyCompany(resp) ==
    CASE resp.kind = "nobrace" -> DefaultClassification("other")
      [] resp.kind = "badjson" -> DefaultClassification("other")
      [] resp.kind = "raise"   -> DefaultClassification(resp.msg)
      [] OTHER ->
            [q      |-> resp.q = "true",
             conf   |-> IF resp.conf.k = "absent" THEN Num(DefaultConfidence)
                        ELSE resp.conf,
             reason |-> resp.reason,
             wbr    |-> resp.wbr]

(***************************************************************************)
(* One pass of the CLASSIFY loop and _verify_llm_prospect                  *)
(*                                                                         *)
(* The scraper's answer is [kind, len]: kind "raise", "none" (None or an   *)
(* empty dict) or "dict" with len = len(combined_text), 0 when the key is  *)
(* missing.  A confidence/100 is kept exact as [num, den].                 *)
(***************************************************************************)
\* len(combined_text) < MinContentLen is insufficient content
MinContentLen == 200

\* the acceptance gate: confidence >= AcceptThreshold
AcceptThreshold == 60

\* confidence / 100
ConfidenceScale == 100

\* the confidence kept as the percentage it came as
Percent(n) == [num |-> n, den |-> 1]

Ratio(n) == [num |-> n, den |-> ConfidenceScale]

\* the content test without its length part: not scraped
MissingContent(scraped) == scraped.kind = "none"

\* not scraped or len(scraped.get("combined_text", "")) < 200
InsufficientContent(scraped) ==
    scraped.kind = "none" \/ scraped.len < MinContentLen

\* the gate without its confidence test: is_qualified alone
AcceptsUngated(q, confidence) == q

\* is_qualified and confidence >= 60, for a numeric confidence
Accepts(q, confidence) == q /\ confidence >= AcceptThreshold

\* the rejection counter the else branch increments; "raise" when the branch
\* raises TypeError (a null reason is sliced, a non-number is compared)
RejectionCounter(v) ==
    CASE v.reason = "null"     -> "raise"
      [] v.reason = "geo"      -> "wrong_geo"
      [] v.reason = "industry" -> "wrong_industry"
      [] v.conf.k = "bad"      -> "raise"
      [] v.conf.v < AcceptThreshold -> "low_confidence"
      [] OTHER                 -> "not_buyer"

\* The body of the CLASSIFY loop for one candidate, up to the end of its
\* try/except, given what the scraper and the LLM answer:
\*   classified: _classify_company was called;  verdict: what it returned
\*   append:     a Prospect was appended (and accepted incremented)
\*   counter:    the rejected_reasons key incremented, "none" if none
\*   skipped:    the pass ended in a continue (the target check is not run)
ClassifyPass(domain, scraped, resp) ==
    LET v    == ClassifyCompany(resp)
        none == [classified |-> FALSE, verdict |-> v, append |-> FALSE,
                 prospect |-> [domain |-> domain, confidence |-> Ratio(0),
                               source |-> "web_search_verified"],
                 counter |-> "error", skipped |-> TRUE]
    IN  CASE scraped.kind = "raise"       -> none
          [] InsufficientContent(scraped) -> none
          [] v.q /\ v.conf.k = "bad" ->
                [none EXCEPT !.classified = TRUE]
          [] v.conf.k = "num" /\ Accepts(v.q, v.conf.v) ->
                [none EXCEPT !.classified = TRUE, !.append = TRUE,
                             !.prospect.confidence = Ratio(v.conf.v),
                             !.counter = IF v.wbr = "null" THEN "error" ELSE "none",
                             !.skipped = (v.wbr = "null")]
          [] RejectionCounter(v) = "raise" ->
                [none EXCEPT !.classified = TRUE]
          [] OTHER ->
                [none EXCEPT !.classified = TRUE,
                             !.counter = RejectionCounter(v),
                             !.skipped = FALSE]

\* _verify_llm_prospect without its content test: the company is classified
\* whatever the scraper returned
VerifyWithoutContentTest(domain, scraped, resp) ==
    LET v == ClassifyCompany(resp)
    IN  [classified |-> TRUE, verdict |-> v,
         verified   |-> v.conf.k = "num" /\ Accepts(v.q, v.conf.v),
         prospect   |-> [domain |-> domain,
                         confidence |-> Ratio(IF v.conf.k = "num" THEN v.conf.v ELSE 0),
                         source |-> "llm_verified"]]

\* _verify_llm_prospect(prospect, icp_data), given what the scraper and the
\* LLM answer: verified is FALSE where the function returns None
VerifyLlmProspect(domain, scraped, resp) ==
    LET v    == ClassifyCompany(resp)
        none == [classified |-> FALSE, verdict |-> v, verified |-> FALSE,
                 prospect |-> [domain |-> domain, confidence |-> Ratio(0),
                               source |-> "llm_verified"]]
    IN  CASE scraped.kind = "raise"       -> none
          [] InsufficientContent(scraped) -> none
          [] v.conf.k = "num" /\ Accepts(v.q, v.conf.v) ->
                [none EXCEPT !.classified = TRUE, !.verified = TRUE,
                             !.prospect.confidence = Ratio(v.conf.v)]
          [] OTHER -> [none EXCEPT !.classified = TRUE]

(***************************************************************************)
(* PHASE 4: _generate_prospects_via_llm                                    *)
(*                                                                         *)
(* The LLM's answer is [kind, items], kind "raise", "noarray", "badjson"   *)
(* or "list".  An item is [dict, has_name, domain, est]: dict is FALSE for *)
(* a JSON value that is no object; domain is [k, v] with k "absent" (no    *)
(* key, or null), "str" (the string v, <<>> the empty one) or "bad" (a     *)
(* truthy value that is no string); est is estimated_confidence, [k, v]    *)
(* with k "absent", "num" or "bad".                                        *)
(***************************************************************************)
\* item.get("estimated_confidence", DefaultEstimate)
DefaultEstimate == 70

\* min(estimated_confidence, EstimateCap)
EstimateCap == 85

\* the loop body raises for this item (caught by the function's except,
\* which returns [])
ItemRaises(item) ==
    /\ item.dict /\ item.has_name
    /\ \/ item.domain.k = "bad"
       \/ /\ item.domain.k = "str" /\ item.domain.v # <<>>
          /\ IsValidDomain(item.domain.v)
          /\ item.est.k = "bad"

\* the item passes the first continue test; _is_valid_domain is not asked
ItemKeptUnchecked(item) ==
    /\ item.dict /\ item.has_name
    /\ item.domain.k = "str" /\ item.domain.v # <<>>

\* the item passes the two continue tests
ItemKept(item) ==
    /\ item.dict /\ item.has_name
    /\ item.domain.k = "str" /\ item.domain.v # <<>>
    /\ IsValidDomain(item.domain.v)

\* the dict appended for a kept item if the estimate were not capped
SuggestionUncapped(item) ==
    [domain     |-> item.domain.v,
     confidence |-> Ratio(IF item.est.k = "absent" THEN DefaultEstimate
                          ELSE item.est.v),
     source     |-> "llm_generated"]

\* the dict appended for a kept item
Suggestion(item) ==
    [domain     |-> item.domain.v,
     confidence |-> Ratio(Min(IF item.est.k = "absent" THEN DefaultEstimate
                              ELSE item.est.v, EstimateCap)),
     source     |-> "llm_generated"]

\* the generator without its continue tests on the domain: every object
\* with a name and a string as domain is returned
GenerateWithoutDomainTest(resp, count) ==
    IF resp.kind # "list" THEN <<>>
    ELSE LET kept == Filter(resp.items,
                        [i \in 1..Len(resp.items) |->
                            /\ resp.items[i].dict /\ resp.items[i].has_name
                            /\ resp.items[i].domain.k = "str"
                            /\ resp.items[i].est.k # "bad"])
         IN  Take([k \in 1..Len(kept) |-> Suggestion(kept[k])], count)

\* the generator without its final slice: every kept item is returned
GenerateUncounted(resp, count) ==
    IF resp.kind # "list" THEN <<>>
    ELSE IF \E i \in 1..Len(resp.items) : ItemRaises(resp.items[i]) THEN <<>>
    ELSE CHOOSE r \in
            { [k \in 1..Len(kept) |-> Suggestion(kept[k])] :
                kept \in { Filter(resp.items,
                             [i \in 1..Len(resp.items) |-> ItemKept(resp.items[i])]) } } :
            TRUE

\* _generate_prospects_via_llm(icp_data, count), given the LLM's answer
GenerateProspectsViaLlm(resp, count) ==
    IF resp.kind # "list" THEN <<>>
    ELSE IF \E i \in 1..Len(resp.items) : ItemRaises(resp.items[i]) THEN <<>>
    ELSE CHOOSE r \in
            { Take([k \in 1..Len(kept) |-> Suggestion(kept[k])], count) :
                kept \in { Filter(resp.items,
                             [i \in 1..Len(resp.items) |-> ItemKept(resp.items[i])]) } } :
            TRUE

(***************************************************************************)
(* The final ranking                                                       *)
(***************************************************************************)
\* key(a) > key(b) for the sort key x.get('confidence', 0)
Before(a, b) == a.confidence.num * b.confidence.den > b.confidence.num * a.confidence.den

\* p put in front of the elements with an equal key: a sort that is not
\* stable
InsertBeforeEquals(s, p) ==
    LET later == {j \in 1..Len(s) : ~Before(s[j], p)}
        k     == IF later = {} THEN Len(s) + 1
                 ELSE CHOOSE j \in later : \A l \in later : j <= l
    IN  SubSeq(s, 1, k - 1) \o <<p>> \o SubSeq(s, k, Len(s))

\* p put into the sorted list s behind every element that does not come
\* after it: equal keys keep their order (list.sort is stable, and with
\* reverse=True equal elements still keep their original order)
InsertSorted(s, p) ==
    LET later == {j \in 1..Len(s) : Before(p, s[j])}
        k     == IF later = {} THEN Len(s) + 1
                 ELSE CHOOSE j \in later : \A l \in later : j <= l
    IN  SubSeq(s, 1, k - 1) \o <<p>> \o SubSeq(s, k, Len(s))

RECURSIVE SortFrom(_, _, _)
\* the elements s[i], s[i + 1], ... put one by one into the sorted list acc;
\* acc and the element are values (bound) when a pass uses them
SortFrom(s, i, acc) ==
    IF i > Len(s) THEN acc
    ELSE CHOOSE out \in { SortFrom(s, i + 1, InsertSorted(a, p)) :
                             a \in {acc}, p \in {s[i]} } : TRUE

\* the list left in the order of acceptance
Unsorted(s) == s

\* prospects.sort(key=lambda x: x.get('confidence', 0), reverse=True)
SortByConfidence(s) == SortFrom(s, 1, <<>>)

(***************************************************************************)
(* The runs explored                                                       *)
(*                                                                         *)
(* A world fixes the ICP, SEARCH_MAX_RESULTS and how freely each           *)
(* collaborator answers.  The worlds "collect", "classify" and "augment"   *)
(* let the collaborators of one stage answer in every way and keep the     *)
(* other stages short; the "bulk" worlds follow a script over many         *)
(* domains, so that the run meets the counts find_prospects tests          *)
(* (10, 20, 50); the "overrun" world is a bulk world whose 20th and 21st  *)
(* verdicts may carry a null would_buy_reasoning; the "budget" world is a *)
(* bulk world in which the first two suggestions fail verification, so     *)
(* that the run spends every call it can; the "queries" worlds             *)
(* vary the ICP and the answer to the query prompt and find nothing.       *)
(***************************************************************************)
\* the frames the interpreter's recursion limit leaves to the recursion of
\* _execute_search: the call that would be frame RecursionLimit + 1 raises
\* RecursionError (about 1000 in CPython; scaled down here)
RecursionLimit == 3

NoCountries == [present |-> FALSE, v |-> <<>>]

\* customer_industry = "": no template query
PlainIcp ==
    [industries |-> <<>>, scope |-> "global", regions |-> <<>>,
     countries |-> NoCountries]

\* customer_industry = "retail", national scope without a countries key:
\* four template queries and "retail companies USA"
RetailIcp ==
    [industries |-> << <<"retail">> >>, scope |-> "national", regions |-> <<>>,
     countries |-> NoCountries]

\* customer_industry = "retail, , hotels, grocery, logistics, pharma, mining",
\* regional scope with six regions: thirty template queries
WideIcp ==
    [industries |-> << <<"retail">>, <<>>, <<"hotels">>, <<"grocery">>,
                       <<"logistics">>, <<"pharma">>, <<"mining">> >>,
     scope |-> "regional",
     regions |-> << <<"Texas">>, <<"Ohio">>, <<"Utah">>, <<"Iowa">>, <<"Maine">>,
                    <<"Idaho">> >>,
     countries |-> NoCountries]

\* customer_industry = "retail, hotels, grocery", national scope with four
\* countries: eighteen template queries
MidIcp ==
    [industries |-> << <<"retail">>, <<"hotels">>, <<"grocery">> >>,
     scope |-> "national", regions |-> <<>>,
     countries |-> [present |-> TRUE,
                    v |-> << <<"USA">>, <<"Canada">>, <<"Mexico">>, <<"Brazil">> >>]]

\* customer_industry = "retail, Retail, retail", global scope
CaseIcp ==
    [industries |-> << <<"retail">>, <<"Retail">>, <<"retail">> >>,
     scope |-> "global", regions |-> <<>>, countries |-> NoCountries]

World(name, icp, max_results, pages, accept_upto, sugg) ==
    [name |-> name, icp |-> icp, max_results |-> max_results,
     pages |-> pages, accept_upto |-> accept_upto, sugg |-> sugg]

\* settings.SEARCH_MAX_RESULTS when the environment variable is not set
DefaultMaxResults == 50

Worlds ==
    { World("collect",  PlainIcp, DefaultMaxResults, 0, 0, 0),
      World("classify", PlainIcp, DefaultMaxResults, 0, 0, 0),
      World("augment",  PlainIcp, DefaultMaxResults, 0, 0, 0),
      World("augment",  PlainIcp, 2, 0, 0, 0),
      World("bulk", RetailIcp, DefaultMaxResults, 1, 9, 22),
      World("bulk", RetailIcp, DefaultMaxResults, 1, 10, 0),
      World("bulk", RetailIcp, DefaultMaxResults, 3, 30, 0),
      World("bulk", RetailIcp, DefaultMaxResults, 6, 0, 0),
      World("overrun", RetailIcp, DefaultMaxResults, 3, 30, 0),
      World("budget", RetailIcp, DefaultMaxResults, 6, 0, 22),
      World("queries", PlainIcp, DefaultMaxResults, 0, 0, 0),
      World("queries", RetailIcp, DefaultMaxResults, 0, 0, 0),
      World("queries", CaseIcp, DefaultMaxResults, 0, 0, 0),
      World("queries", MidIcp, DefaultMaxResults, 0, 0, 0),
      World("queries", WideIcp, DefaultMaxResults, 0, 0, 0) }

(***************************************************************************)
(* What the collaborators answer                                           *)
(***************************************************************************)
Str(text) == [str |-> TRUE, text |-> text]

\* the answers to the query prompt: a list holding two usable queries, a
\* string of one character and a number
QueryList ==
    [kind |-> "list",
     items |-> << Str(<<"largest", "hotels", "USA">>), Str(<<"q">>),
                  [str |-> FALSE, text |-> <<>>],
                  Str(<<"hotels", "with", "facilities">>) >>]

OneQuery == [kind |-> "list", items |-> << Str(<<"largest", "hotels", "USA">>) >>]

\* "top hotels n01" .. "top hotels n12"
LlmFill ==
    << "n01", "n02", "n03", "n04", "n05", "n06", "n07", "n08", "n09", "n10",
       "n11", "n12" >>

\* an answer holding more usable queries than are kept, among them strings
\* of five and of six characters, a number and a template query
LongList ==
    [kind |-> "list",
     items |-> << Str(<<"Texas">>), Str(<<"hotels">>), [str |-> FALSE, text |-> <<>>],
                  Str(<<"leading", "retail", "companies">>) >>
               \o [k \in 1..Len(LlmFill) |-> Str(<<"top", "hotels", LlmFill[k]>>)]]

\* an answer that repeats template queries and its own queries, letter for
\* letter and in another letter case
EchoList ==
    [kind |-> "list",
     items |-> << Str(<<"largest", "hotels", "USA">>),
                  Str(<<"leading", "retail", "companies">>),
                  Str(<<"Leading", "retail", "companies">>),
                  Str(<<"largest", "hotels", "usa">>),
                  Str(<<"largest", "hotels", "USA">>),
                  Str(<<"hotels", "with", "facilities">>) >>]

QueryAnswers(w) ==
    CASE w.name \in {"collect", "queries"} ->
            { [kind |-> "raise", items |-> <<>>], [kind |-> "noarray", items |-> <<>>],
              [kind |-> "badjson", items |-> <<>>], QueryList } \cup
            (IF w.name = "queries" THEN { LongList, EchoList } ELSE {})
      [] w.name = "classify" -> { QueryList }
      [] OTHER -> { OneQuery }

Item(netloc, title) == [link |-> netloc, title |-> title]

\* pages of search results (link given by its netloc, <<>> when it has none)
PageAcme ==
    << Item(<<"www", "acme", "com">>, "t1"), Item(<<"Acme", "com">>, "t2"),
       Item(<<"www", "linkedin", "com">>, "t3") >>

PageUk ==
    << Item(<<"WWW", "acme", "co", "uk">>, "t4"), Item(<<"acme", "co", "uk">>, "t5") >>

PageMixed ==
    << Item(<<"shop", "beta", "io">>, "t6"), Item(<<"city", "gov">>, "t7"),
       Item(<<>>, "t8"), Item(<<"netflix", "com">>, "t9") >>

PageTwo ==
    << Item(<<"acme", "com">>, "t1"), Item(<<"www", "beta", "io">>, "t6") >>

\* num = 10: a full page of results
PageSize == 10

\* the k-th page of the bulk worlds: www.cNN.com for the next ten numbers
BulkPage(k) ==
    [j \in 1..PageSize |->
        Item(<<"www", SearchFill[PageSize * (k - 1) + j], "com">>, "t")]

\* the answers to a search request other than HTTP 429: "error" (a status
\* that is neither 200 nor 429), "raise" (requests.get or resp.json raises)
\* or "ok" with the items
Ok(items) == [kind |-> "ok", items |-> items]

SearchAnswers(w, k) ==
    CASE w.name = "collect" ->
            { [kind |-> "error", items |-> <<>>], [kind |-> "raise", items |-> <<>>],
              Ok(PageAcme), Ok(PageUk), Ok(PageMixed) }
      [] w.name = "classify" -> { [kind |-> "raise", items |-> <<>>], Ok(PageTwo) }
      [] w.name = "augment"  -> { Ok(PageAcme) }
      [] OTHER -> { Ok(IF k <= w.pages THEN BulkPage(k) ELSE <<>>) }

\* the search API may answer 429 to a request for the k-th query
RateLimits(w, k) == w.name = "collect" \/ k = 1

Scraped(kind, len) == [kind |-> kind, len |-> len]

AllScrapes ==
    { Scraped("raise", 0), Scraped("none", 0), Scraped("dict", 0),
      Scraped("dict", MinContentLen - 1), Scraped("dict", MinContentLen) }

Json(q, conf, reason, wbr) ==
    [kind |-> "json", msg |-> "other", q |-> q, conf |-> conf,
     reason |-> reason, wbr |-> wbr]

Absent == [k |-> "absent", v |-> 0]

Bad == [k |-> "bad", v |-> 0]

Failure(kind, msg) ==
    [kind |-> kind, msg |-> msg, q |-> "absent", conf |-> Absent,
     reason |-> "absent", wbr |-> "absent"]

AcceptAt(c) == Json("true", Num(c), "absent", "text")

Reject(reason) == Json("false", Num(85), reason, "text")

AllVerdicts ==
    { Failure("raise", "other"), Failure("raise", "empty"),
      Failure("nobrace", "other"), Failure("badjson", "other"),
      AcceptAt(AcceptThreshold), AcceptAt(85),
      AcceptAt(AcceptThreshold - 1),
      Json("true", Num(85), "absent", "null"),
      Json("true", Bad, "absent", "text"),
      Json("true", Absent, "absent", "text"),
      Json("absent", Num(85), "absent", "text"),
      Json("false", Bad, "other", "text"),
      Reject("geo"), Reject("industry"), Reject("other"), Reject("null"),
      Reject("empty") }

\* the number of a filler label in its list, 0 for any other label
RECURSIVE IndexIn(_, _, _)
IndexIn(s, x, i) ==
    IF i > Len(s) THEN 0 ELSE IF s[i] = x THEN i ELSE IndexIn(s, x, i + 1)

FillNumber(domain) ==
    IF domain = <<>> THEN 0
    ELSE Max(IndexIn(SearchFill, domain[1], 1), IndexIn(SuggestFill, domain[1], 1))

\* the script of the bulk worlds: odd numbers at the threshold, even above
ScriptedConfidence(domain) ==
    IF FillNumber(domain) % 2 = 1 THEN AcceptThreshold ELSE 85

ScrapeAnswers(w, stage, domain) ==
    CASE w.name = "classify" -> AllScrapes
      [] w.name = "augment" ->
            IF stage = "classify"
            THEN { Scraped("none", 0), Scraped("dict", MinContentLen) }
            ELSE { Scraped("raise", 0), Scraped("dict", MinContentLen - 1),
                   Scraped("dict", MinContentLen) }
      [] OTHER -> { Scraped("dict", MinContentLen) }

ClassifyAnswers(w, stage, domain) ==
    CASE w.name = "classify" -> AllVerdicts
      [] w.name = "augment" ->
            IF stage = "classify"
            THEN { AcceptAt(AcceptThreshold), AcceptAt(AcceptThreshold - 1),
                   Reject("other") }
            ELSE { AcceptAt(AcceptThreshold), AcceptAt(70),
                   AcceptAt(AcceptThreshold - 1), Reject("other"),
                   Failure("raise", "other"), Json("true", Bad, "absent", "text") }
      [] w.name = "collect" -> { AcceptAt(85) }
      [] OTHER ->
            IF \/ stage = "augment"
                     /\ ~(w.name = "budget" /\ FillNumber(domain) <= 2)
               \/ stage # "augment" /\ FillNumber(domain) <= w.accept_upto
            THEN { AcceptAt(ScriptedConfidence(domain)) } \cup
                 (IF w.name = "overrun" /\ FillNumber(domain) \in {20, 21}
                  THEN { Json("true", Num(ScriptedConfidence(domain)), "absent",
                              "null") }
                  ELSE {})
            ELSE { Reject("other") }

Dom(v) == [k |-> "str", v |-> v]

Entry(domain, est) ==
    [dict |-> TRUE, has_name |-> TRUE, domain |-> domain, est |-> est]

\* the arrays the fallback prompt is answered with
SuggestAcme ==
    << Entry(Dom(<<"www", "acme", "com">>), Num(95)),
       Entry(Dom(<<"acme", "com">>), Absent),
       Entry(Dom(<<"Acme", "com">>), Num(70)) >>

SuggestMixed ==
    << [dict |-> FALSE, has_name |-> FALSE, domain |-> Absent, est |-> Absent],
       [dict |-> TRUE, has_name |-> FALSE, domain |-> Dom(<<"beta", "io">>), est |-> Absent],
       Entry(Absent, Absent), Entry(Dom(<<>>), Absent),
       Entry(Dom(<<"linkedin", "com">>), Num(95)),
       Entry(Dom(<<"city", "gov">>), Num(95)),
       Entry(Dom(<<"beta", "io">>), Num(80)),
       Entry(Dom(<<"beta", "io">>), Num(95)) >>

SuggestBadDomain == << Entry(Dom(<<"acme", "com">>), Absent), Entry(Bad, Absent) >>

SuggestBadEstimate == << Entry(Dom(<<"beta", "io">>), Bad) >>

\* the bulk answer: n suggestions sNN.com
BulkSuggestions(n) ==
    [j \in 1..n |-> Entry(Dom(<<SuggestFill[j], "com">>), Num(95))]

List(items) == [kind |-> "list", items |-> items]

FallbackAnswers(w) ==
    CASE w.name = "collect"  -> { [kind |-> "raise", items |-> <<>>] }
      [] w.name = "classify" ->
            { [kind |-> "raise", items |-> <<>>], [kind |-> "noarray", items |-> <<>>],
              [kind |-> "badjson", items |-> <<>>], List(SuggestBadDomain),
              List(SuggestBadEstimate) }
      [] w.name = "augment" -> { List(SuggestAcme), List(SuggestMixed) }
      [] OTHER -> { List(BulkSuggestions(w.sugg)) }

(***************************************************************************)
(* find_prospects                                                          *)
(***************************************************************************)
\* max_to_process = min(MaxToProcess, len(candidates))
MaxToProcess == 50

\* the CLASSIFY loop breaks at len(prospects) >= TargetProspects
TargetProspects == 20

\* STAGE 4 runs when len(prospects) < AugmentFloor
AugmentFloor == 10

\* _generate_prospects_via_llm(icp_data, FallbackCount)
FallbackCount == 20

\* the AUGMENT loop breaks at len(prospects) >= AugmentTarget
AugmentTarget == 20

VARIABLES
    world,             \* the run explored (constant through the run)
    pc,                \* the stage find_prospects is in
    queries,           \* queries
    qi,                \* the loop variable i of STAGE 2, from 1
    depth,             \* frames of _execute_search stacked for query qi
    seen_domains,      \* seen_domains
    candidates,        \* candidates
    prospects,         \* prospects
    processed,         \* processed
    accepted,          \* accepted
    rejected_reasons,  \* rejected_reasons
    ci,                \* the loop variable i of STAGE 3, from 1
    max_to_process,    \* max_to_process
    llm_prospects,     \* llm_prospects
    existing_domains,  \* existing_domains
    verified_count,    \* verified_count
    li,                \* the position of the STAGE 4 loop in llm_prospects
    result,            \* the list find_prospects returns, set at the return
    raised,            \* an exception left find_prospects
    validations,       \* history: the calls of _is_valid_domain
    calls              \* history: the calls of the collaborators, in order

vars ==
    << world, pc, queries, qi, depth, seen_domains, candidates, prospects,
       processed, accepted, rejected_reasons, ci, max_to_process,
       llm_prospects, existing_domains, verified_count, li, result, raised,
       validations, calls >>

collectVars == << seen_domains, candidates >>

classifyVars ==
    << prospects, processed, accepted, rejected_reasons, ci, max_to_process >>

augmentVars == << llm_prospects, existing_domains, verified_count, li >>

\* a call of a collaborator, as the history keeps it: what was called, in
\* which stage, for which domain (<<>> if none) or query number (0 if none),
\* the kind of answer, and of the answer the text length of a scrape and
\* the is_qualified_prospect, confidence (-1 if none) and rejection_reason
\* ("none" if the call returns no verdict) of a verdict, the required keys
\* the JSON object of a classification answer lacks, and the items of a list
\* answer
Call(op, stage, domain, query, outcome, len, q, conf) ==
    [op |-> op, stage |-> stage, domain |-> domain, query |-> query,
     outcome |-> outcome, len |-> len, q |-> q, conf |-> conf,
     reason |-> "none", items |-> <<>>, missing |-> {}]

SearchCall(k, outcome) ==
    Call("search", "collect", <<>>, k, outcome, -1, FALSE, -1)

ScrapeCall(stage, domain, scraped) ==
    Call("scrape", stage, domain, 0, scraped.kind,
         IF scraped.kind = "dict" THEN scraped.len ELSE -1, FALSE, -1)

\* the LLM call of _classify_company and the verdict the function returned
ClassifyCall(stage, domain, scraped, resp, verdict) ==
    [Call("classify", stage, domain, 0, resp.kind, scraped.len, verdict.q,
          IF verdict.conf.k = "num" THEN verdict.conf.v ELSE -1)
        EXCEPT !.reason = verdict.reason,
               !.missing = IF resp.kind # "json" THEN {}
                           ELSE (IF resp.q = "absent"
                                 THEN {"is_qualified_prospect"} ELSE {}) \cup
                                (IF resp.conf.k = "absent"
                                 THEN {"confidence"} ELSE {})]

\* an LLM call that answers with a list, and the items of the answer
LlmCall(op, stage, resp) ==
    [Call(op, stage, <<>>, 0, resp.kind, -1, FALSE, -1) EXCEPT !.items = resp.items]

\* a call of _is_valid_domain and what it returned
Validation(stage, domain) ==
    [stage |-> stage, domain |-> domain, ok |-> IsValidDomain(domain)]

\* the search requests issued for the k-th query
SearchRequests(k) ==
    Cardinality({i \in DOMAIN calls : calls[i].op = "search" /\ calls[i].query = k})

NoCounts ==
    [k \in {"not_buyer", "wrong_industry", "wrong_geo", "low_confidence", "error"}
        |-> 0]

Init ==
    /\ world \in Worlds
    /\ pc = "query_gen"
    /\ queries = <<>>
    /\ qi = 1
    /\ depth = 0
    /\ seen_domains = {}
    /\ candidates = <<>>
    /\ prospects = <<>>
    /\ processed = 0
    /\ accepted = 0
    /\ rejected_reasons = NoCounts
    /\ ci = 1
    /\ max_to_process = 0
    /\ llm_prospects = <<>>
    /\ existing_domains = {}
    /\ verified_count = 0
    /\ li = 1
    /\ result = <<>>
    /\ raised = FALSE
    /\ validations = {}
    /\ calls = <<>>

\* STAGE 1: queries = self._generate_search_queries(icp_data)
GenerateQueries ==
    /\ pc = "query_gen"
    /\ \E resp \in QueryAnswers(world) :
          /\ queries' = GenerateSearchQueries(world.icp, resp)
          /\ calls' = Append(calls, LlmCall("llm_queries", "query_gen", resp))
    /\ pc' = "collect"
    /\ UNCHANGED << world, qi, depth, collectVars, classifyVars, augmentVars,
                    result, raised, validations >>

\* _execute_search without its try/except: what requests.get or resp.json
\* raises leaves the function
ExecuteSearchUnguarded(answer) ==
    CASE answer.kind = "ok"    -> [exc |-> FALSE, results |-> answer.items]
      [] answer.kind = "raise" -> [exc |-> TRUE,  results |-> <<>>]
      [] OTHER                 -> [exc |-> FALSE, results |-> <<>>]

\* _execute_search up to its return, for an answer other than 429: the list
\* of results, and whether an exception leaves the function
ExecuteSearch(answer) ==
    CASE answer.kind = "ok" -> [exc |-> FALSE, results |-> answer.items]
      [] OTHER              -> [exc |-> FALSE, results |-> <<>>]

\* an except clause that does not cover RecursionError: it leaves
\* _execute_search and find_prospects
RecursionErrorEscapes == [exc |-> TRUE, results |-> <<>>]

\* what the frame of _execute_search that meets RecursionError does with
\* it: its except clause logs it and returns []
OnRecursionError == [exc |-> FALSE, results |-> <<>>]

\* if domain and domain not in seen_domains and self._is_valid_domain(domain)
Admits(domain, seen) ==
    domain # <<>> /\ domain \notin seen /\ IsValidDomain(domain)

\* one pass of the inner loop of STAGE 2, for the result r; acc is
\* [seen, cands, checked], checked being the domains handed to
\* _is_valid_domain (the and-chain reaches it for a non-empty domain that is
\* not in seen_domains)
CollectOne(acc, r) ==
    LET domain  == ExtractDomain(r.link)
        checked == IF domain # <<>> /\ domain \notin acc.seen
                   THEN acc.checked \cup {domain} ELSE acc.checked
    IN  IF Admits(domain, acc.seen)
        THEN [seen    |-> acc.seen \cup {domain},
              cands   |-> Append(acc.cands, [domain |-> domain, title |-> r.title]),
              checked |-> checked]
        ELSE [acc EXCEPT !.checked = checked]

RECURSIVE CollectFrom(_, _, _)
\* the inner loop of STAGE 2 over results[i], results[i + 1], ...; acc and
\* the result are values (bound) when a pass uses them
CollectFrom(results, i, acc) ==
    IF i > Len(results) THEN acc
    ELSE CHOOSE out \in { CollectFrom(results, i + 1, CollectOne(a, r)) :
                             a \in {acc}, r \in {results[i]} } : TRUE

\* the rest of one pass of the STAGE 2 loop, given what _execute_search
\* returned
CollectResults(results) ==
    LET got == CollectFrom(results, 1,
                 [seen |-> seen_domains, cands |-> candidates, checked |-> {}])
    IN  /\ seen_domains' = got.seen
        /\ candidates' = got.cands
        /\ validations' = validations \cup
              {Validation("collect", d) : d \in got.checked}
        /\ qi' = qi + 1
        /\ depth' = 0

\* requests.get(self.base_url, ...) for query qi, and the kind of answer
RequestIssued(outcome) == calls' = Append(calls, SearchCall(qi, outcome))

\* the stack depth after "return self._execute_search(query)" has entered
\* the next frame
NextDepth(d) == d + 1

\* STAGE 2, HTTP 429: sleep, then the recursive call issues the request again
SearchRateLimited ==
    /\ pc = "collect" /\ qi <= Len(queries)
    /\ RateLimits(world, qi)
    /\ depth + 1 < RecursionLimit
    /\ RequestIssued("429")
    /\ depth' = NextDepth(depth)
    /\ UNCHANGED << world, pc, queries, qi, collectVars, classifyVars,
                    augmentVars, result, raised, validations >>

\* a STAGE 2 loop that gives up at the first query without results: the
\* remaining queries are not submitted
SearchAbortsOnFailure(r) ==
    IF r.results = <<>>
    THEN /\ qi' = Len(queries) + 1
         /\ depth' = 0
         /\ UNCHANGED << pc, raised, collectVars, validations >>
    ELSE /\ CollectResults(r.results)
         /\ UNCHANGED << pc, raised >>

\* what find_prospects does with the outcome r of _execute_search
SearchReturned(r) ==
    IF r.exc
    THEN /\ raised' = TRUE /\ pc' = "done"
         /\ UNCHANGED << qi, depth, collectVars, validations >>
    ELSE /\ CollectResults(r.results)
         /\ UNCHANGED << pc, raised >>

\* STAGE 2, HTTP 429 in the deepest frame the stack allows: the recursive
\* call raises RecursionError, the except clause returns []
SearchStackExhausted ==
    /\ pc = "collect" /\ qi <= Len(queries)
    /\ RateLimits(world, qi)
    /\ depth + 1 >= RecursionLimit
    /\ RequestIssued("429")
    /\ SearchReturned(OnRecursionError)
    /\ UNCHANGED << world, queries, classifyVars, augmentVars, result >>

\* STAGE 2, any other answer: the results are collected
SearchAnswered ==
    /\ pc = "collect" /\ qi <= Len(queries)
    /\ \E answer \in SearchAnswers(world, qi) :
          /\ RequestIssued(answer.kind)
          /\ SearchReturned(ExecuteSearch(answer))
    /\ UNCHANGED << world, queries, classifyVars, augmentVars, result >>

\* every candidate is processed, however many there are
ProcessAll(n) == n

\* max_to_process = min(50, len(candidates))
ProcessLimit(n) == Min(MaxToProcess, n)

\* the end of STAGE 2 and the set-up of STAGE 3
StartClassify ==
    /\ pc = "collect" /\ qi > Len(queries)
    /\ prospects' = <<>>
    /\ processed' = 0
    /\ accepted' = 0
    /\ rejected_reasons' = NoCounts
    /\ max_to_process' = ProcessLimit(Len(candidates))
    /\ ci' = 1
    /\ pc' = IF max_to_process' >= 1 THEN "classify" ELSE "stage4"
    /\ UNCHANGED << world, queries, qi, depth, collectVars, augmentVars,
                    result, raised, validations, calls >>

\* if len(prospects) >= 20: break, at the end of a pass that did not continue
TargetReached(n) == n >= TargetProspects

\* STAGE 3: one pass of the loop over candidates[:max_to_process]
ClassifyCandidate ==
    /\ pc = "classify" /\ ci <= max_to_process
    /\ LET domain == candidates[ci].domain
       IN  \E scraped \in ScrapeAnswers(world, "classify", domain),
              resp \in ClassifyAnswers(world, "classify", domain) :
             LET r == ClassifyPass(domain, scraped, resp)
             IN  /\ processed' = processed + 1
                 /\ prospects' = IF r.append THEN Append(prospects, r.prospect)
                                 ELSE prospects
                 /\ accepted' = IF r.append THEN accepted + 1 ELSE accepted
                 /\ rejected_reasons' =
                       IF r.counter = "none" THEN rejected_reasons
                       ELSE [rejected_reasons EXCEPT ![r.counter] = @ + 1]
                 /\ calls' = calls \o <<ScrapeCall("classify", domain, scraped)>>
                       \o (IF r.classified
                           THEN <<ClassifyCall("classify", domain, scraped, resp,
                                               r.verdict)>>
                           ELSE <<>>)
                 /\ ci' = ci + 1
                 /\ pc' = IF \/ (~r.skipped /\ TargetReached(Len(prospects')))
                             \/ ci' > max_to_process
                          THEN "stage4" ELSE "classify"
    /\ UNCHANGED << world, queries, qi, depth, collectVars, max_to_process,
                    augmentVars, result, raised, validations >>

\* the test of STAGE 4 with <= in place of <
NeedsAugmentInclusive(n) == n <= AugmentFloor

\* STAGE 4 is entered: if len(prospects) < 10
NeedsAugment(n) == n < AugmentFloor

\* the domains handed to _is_valid_domain while _generate_prospects_via_llm
\* runs: those of the items the loop reaches (up to the first item that
\* raises) that are objects with a name and a non-empty string as domain
CheckedByGenerator(resp) ==
    IF resp.kind # "list" THEN {}
    ELSE { resp.items[i].domain.v :
             i \in { j \in 1..Len(resp.items) :
                       /\ \A k \in 1..(j - 1) : ~ItemRaises(resp.items[k])
                       /\ resp.items[j].dict /\ resp.items[j].has_name
                       /\ resp.items[j].domain.k = "str"
                       /\ resp.items[j].domain.v # <<>> } }

\* STAGE 4: the fallback generator is called
AugmentStart ==
    /\ pc = "stage4" /\ NeedsAugment(Len(prospects))
    /\ \E resp \in FallbackAnswers(world) :
          /\ llm_prospects' = GenerateProspectsViaLlm(resp, FallbackCount)
          /\ validations' = validations \cup
                {Validation("augment", d) : d \in CheckedByGenerator(resp)}
          /\ calls' = Append(calls, LlmCall("llm_prospects", "augment", resp))
    /\ existing_domains' = {prospects[i].domain : i \in 1..Len(prospects)}
    /\ verified_count' = 0
    /\ li' = 1
    /\ pc' = IF Len(llm_prospects') >= 1 THEN "augment" ELSE "rank"
    /\ UNCHANGED << world, queries, qi, depth, collectVars, classifyVars,
                    result, raised >>

\* STAGE 4 is not entered
AugmentSkipped ==
    /\ pc = "stage4" /\ ~NeedsAugment(Len(prospects))
    /\ pc' = "rank"
    /\ UNCHANGED << world, queries, qi, depth, collectVars, classifyVars,
                    augmentVars, result, raised, validations, calls >>

\* if llm_prospect['domain'] in existing_domains: continue
AlreadyAccepted(domain, existing) == domain \in existing

\* STAGE 4: a suggestion whose domain is already accepted is passed over
SuggestionSkipped ==
    /\ pc = "augment" /\ li <= Len(llm_prospects)
    /\ AlreadyAccepted(llm_prospects[li].domain, existing_domains)
    /\ li' = li + 1
    /\ pc' = IF li' > Len(llm_prospects) THEN "rank" ELSE "augment"
    /\ UNCHANGED << world, queries, qi, depth, collectVars, classifyVars,
                    llm_prospects, existing_domains, verified_count, result,
                    raised, validations, calls >>

\* if len(prospects) >= 20: break, after a verified suggestion
AugmentTargetReached(n) == n >= AugmentTarget

\* STAGE 4: a suggestion is verified
SuggestionVerified ==
    /\ pc = "augment" /\ li <= Len(llm_prospects)
    /\ ~AlreadyAccepted(llm_prospects[li].domain, existing_domains)
    /\ LET domain == llm_prospects[li].domain
       IN  \E scraped \in ScrapeAnswers(world, "augment", domain),
              resp \in ClassifyAnswers(world, "augment", domain) :
             LET r == VerifyLlmProspect(domain, scraped, resp)
             IN  /\ prospects' = IF r.verified THEN Append(prospects, r.prospect)
                                 ELSE prospects
                 /\ existing_domains' =
                       IF r.verified THEN existing_domains \cup {r.prospect.domain}
                       ELSE existing_domains
                 /\ verified_count' =
                       IF r.verified THEN verified_count + 1 ELSE verified_count
                 /\ calls' = calls \o <<ScrapeCall("augment", domain, scraped)>>
                       \o (IF r.classified
                           THEN <<ClassifyCall("augment", domain, scraped, resp,
                                               r.verdict)>>
                           ELSE <<>>)
                 /\ li' = li + 1
                 /\ pc' = IF \/ (r.verified /\ AugmentTargetReached(Len(prospects')))
                             \/ li' > Len(llm_prospects)
                          THEN "rank" ELSE "augment"
    /\ UNCHANGED << world, queries, qi, depth, collectVars, processed,
                    accepted, rejected_reasons, ci, max_to_process,
                    llm_prospects, result, raised, validations >>

\* prospects.sort(...) and return prospects[:settings.SEARCH_MAX_RESULTS]
RankAndReturn ==
    /\ pc = "rank"
    /\ prospects' = SortByConfidence(prospects)
    /\ result' = Take(prospects', world.max_results)
    /\ pc' = "done"
    /\ UNCHANGED << world, queries, qi, depth, collectVars, processed,
                    accepted, rejected_reasons, ci, max_to_process,
                    augmentVars, raised, validations, calls >>

Next ==
    \/ GenerateQueries
    \/ SearchRateLimited
    \/ SearchStackExhausted
    \/ SearchAnswered
    \/ StartClassify
    \/ ClassifyCandidate
    \/ AugmentStart
    \/ AugmentSkipped
    \/ SuggestionSkipped
    \/ SuggestionVerified
    \/ RankAndReturn

Spec == Init /\ [][Next]_vars

\* every call of a collaborator returns and the interpreter keeps running
\* find_prospects: a step that can be taken is taken
FairSpec == Spec /\ WF_vars(Next)

(***************************************************************************)
(* _is_valid_domain called on its own                                      *)
(***************************************************************************)
\* the direct calls explored in one behaviour
MaxDirectCalls == 2

\* the domain strings handed to the validator: "", ".co", "x.co",
\* "acme.com", "Acme.com", "WWW.acme.com", "acme.co.uk", "beta.io",
\* "linkedin.com", "www.linkedin.com", "netflix.com" (holds "x.com"),
\* "clever.co" (holds "lever.co"), "linkedin.com.gov", "city.gov",
\* "acme.edu", "acme.mil", "acme.xyz", "acme"
TestDomains ==
    { <<>>, <<"", "co">>, <<"x", "co">>, <<"acme", "com">>, <<"Acme", "com">>,
      <<"WWW", "acme", "com">>, <<"acme", "co", "uk">>, <<"beta", "io">>,
      <<"linkedin", "com">>, <<"www", "linkedin", "com">>, <<"netflix", "com">>,
      <<"clever", "co">>, <<"linkedin", "com", "gov">>, <<"city", "gov">>,
      <<"acme", "edu">>, <<"acme", "mil">>, <<"acme", "xyz">>, <<"acme">> }

\* self._is_valid_domain(domain), called on the constructed finder
ValidateDomain ==
    /\ pc = "query_gen"
    /\ Cardinality(validations) < MaxDirectCalls
    /\ \E domain \in TestDomains :
          validations' = validations \cup {Validation("direct", domain)}
    /\ UNCHANGED << world, pc, queries, qi, depth, collectVars, classifyVars,
                    augmentVars, result, raised, calls >>

ValidatorSpec == Init /\ [][ValidateDomain]_vars

(***************************************************************************)
(* Properties of find_prospects                                            *)
(***************************************************************************)
\* a domain as the data model compares domains: lower-case, with a leading
\* "www." stripped
NormalizeDomain(d) ==
    LET l == Lower(d)
    IN  IF Len(l) >= 2 /\ l[1] = "www" THEN Tail(l) ELSE l

\* a verdict of _classify_company that accepts: is_qualified_prospect true
\* and a confidence of at least 60
AcceptingCall(e) == e.op = "classify" /\ e.q /\ e.conf >= 60

\* a verdict that is qualified with a confidence below 60
LowConfidenceCall(e) == e.op = "classify" /\ e.q /\ e.conf >= 0 /\ e.conf < 60

\* find_prospects has returned its list
Returned == pc = "done" /\ ~raised

\* a step that lengthens prospects appends one Prospect, for the domain of
\* the verdict returned in that step, and that verdict accepts; any other
\* step adds no Prospect
C1_Step ==
    IF Len(prospects') > Len(prospects)
    THEN /\ Len(prospects') = Len(prospects) + 1
         /\ Len(calls') > Len(calls)
         /\ calls'[Len(calls')].domain = prospects'[Len(prospects')].domain
         /\ AcceptingCall(calls'[Len(calls')])
    ELSE Range(prospects') \subseteq Range(prospects)

\* C1: no Prospect is created from a verdict whose confidence is below 60,
\* even if the verdict says is_qualified_prospect = true; this holds for
\* search candidates and for fallback candidates, and the returned list
\* holds only Prospects created this way.
C1_NoProspectBelowThreshold ==
    /\ [][C1_Step]_vars
    /\ [](Range(result) \subseteq Range(prospects))

\* a run that returned after a qualified verdict with a confidence below 60
\* in the CLASSIFY stage and another in the AUGMENT stage, with exactly one
\* Prospect per accepting verdict
C1_Witness ==
    /\ Returned
    /\ \E i, j \in DOMAIN calls :
          /\ LowConfidenceCall(calls[i]) /\ calls[i].stage = "classify"
          /\ LowConfidenceCall(calls[j]) /\ calls[j].stage = "augment"
    /\ Len(result) >= 1
    /\ Len(prospects) = Cardinality({i \in DOMAIN calls : AcceptingCall(calls[i])})

\* the Prospect p of the fallback path went through verification: a scrape
\* of its domain in STAGE 4 gave at least 200 characters and the verdict
\* that followed accepts and gives p its confidence
Verified(p) ==
    \E i \in DOMAIN calls :
       /\ i + 1 \in DOMAIN calls
       /\ calls[i].op = "scrape" /\ calls[i].stage = "augment"
       /\ calls[i].domain = p.domain
       /\ calls[i].outcome = "dict" /\ calls[i].len >= 200
       /\ calls[i + 1].stage = "augment" /\ calls[i + 1].domain = p.domain
       /\ AcceptingCall(calls[i + 1])
       /\ p.confidence = [num |-> calls[i + 1].conf, den |-> 100]

\* C2: every Prospect with source llm_verified was scraped successfully
\* (at least 200 characters) and then classified with an accepting verdict;
\* no fallback candidate is in the list on the strength of the generator's
\* estimated_confidence (source llm_generated).
C2_FallbackProspectsVerified ==
    \A p \in Range(prospects) \cup Range(result) :
       /\ p.source \in {"web_search_verified", "llm_verified"}
       /\ p.source = "llm_verified" => Verified(p)

\* a run that returned a Prospect of the fallback path, after a suggestion
\* whose scrape was too short and one whose verdict did not accept
C2_Witness ==
    /\ Returned
    /\ \E p \in Range(result) : p.source = "llm_verified"
    /\ \E i \in DOMAIN calls :
          /\ calls[i].op = "scrape" /\ calls[i].stage = "augment"
          /\ calls[i].outcome = "dict" /\ calls[i].len < 200
    /\ \E i \in DOMAIN calls :
          /\ calls[i].op = "classify" /\ calls[i].stage = "augment"
          /\ ~AcceptingCall(calls[i])

\* C3: the returned list holds no two Prospects with the same domain,
\* comparing domains lowercased and with "www." stripped; this covers
\* Prospects from search and from the fallback together.
C3_NoDuplicateDomains ==
    Returned =>
       \A i, j \in DOMAIN result :
          i # j => NormalizeDomain(result[i].domain) # NormalizeDomain(result[j].domain)

\* C4: the returned list is sorted by non-increasing confidence.
C4_SortedByConfidence ==
    Returned =>
       \A i \in 1..(Len(result) - 1) :
          result[i].confidence.num * result[i + 1].confidence.den
             >= result[i + 1].confidence.num * result[i].confidence.den

\* a run that returned at least two Prospects of different confidence, the
\* one of higher confidence accepted later
C4_Witness ==
    /\ Returned
    /\ Len(result) >= 2
    /\ result[1].confidence # result[Len(result)].confidence
    /\ \E i, j \in DOMAIN calls :
          /\ i < j /\ AcceptingCall(calls[i]) /\ AcceptingCall(calls[j])
          /\ calls[i].conf < calls[j].conf
          /\ \E k, l \in DOMAIN result :
                /\ l < k
                /\ result[k].domain = calls[i].domain
                /\ result[k].confidence.num = calls[i].conf
                /\ result[l].domain = calls[j].domain
                /\ result[l].confidence.num = calls[j].conf

\* C5: the candidate list of the COLLECT stage never holds two Candidates
\* with the same normalized domain (lowercased, "www." stripped).
C5_UniqueCandidates ==
    \A i, j \in DOMAIN candidates :
       i # j => NormalizeDomain(candidates[i].domain)
                   # NormalizeDomain(candidates[j].domain)

\* C6: when the search provider answers 429 the request is retried once,
\* so one query costs at most two search requests.
C6_AtMostTwoRequests == \A k \in DOMAIN queries : SearchRequests(k) <= 2

\* C7: find_prospects always terminates and returns a list, also when the
\* search provider answers 429 to every request.
C7_Terminates == <>Returned

\* a run that returned although every search request it issued was
\* answered 429
C7_Witness ==
    /\ Returned
    /\ Len(queries) >= 2
    /\ \A k \in DOMAIN queries : SearchRequests(k) = RecursionLimit
    /\ \A i \in DOMAIN calls : calls[i].op = "search" => calls[i].outcome = "429"

\* the call failed: it raised, answered with an HTTP error or with text
\* that holds no usable JSON
Failed(e) == e.outcome \in {"raise", "error", "429", "noarray", "nobrace", "badjson"}

\* the calls a step adds to the history
NewCalls == { calls'[i] : i \in (Len(calls) + 1)..Len(calls') }

\* after a step with a failed call the run goes on, and the step has added
\* no Candidate, no Prospect and no suggestion
C8_Step ==
    (\E e \in NewCalls : Failed(e)) =>
       /\ ~raised' /\ pc' # "done"
       /\ candidates' = candidates /\ prospects' = prospects
       /\ llm_prospects' = llm_prospects
       /\ \/ qi' = qi + 1 \/ depth' = depth + 1 \/ ci' = ci + 1 \/ li' = li + 1
          \/ pc' # pc

\* C8: no failure of an external call (search, scrape, LLM, JSON parsing)
\* makes find_prospects raise; the failure is absorbed and the run goes on
\* with the next query, candidate or stage.
C8_FailuresAbsorbed == [](~raised) /\ [][C8_Step]_vars

\* a run that returned after a failed search request, a failed scrape, a
\* failed classification and a failed call of the fallback generator
C8_Witness ==
    /\ Returned
    /\ \A op \in {"search", "scrape", "classify", "llm_prospects"} :
          \E i \in DOMAIN calls : calls[i].op = op /\ calls[i].outcome = "raise"

\* the stage whose call of _is_valid_domain lets a domain into the given
\* stage: STAGE 3 works on what STAGE 2 collected, STAGE 4 on what the
\* generator kept
ValidatedIn(stage) == IF stage = "classify" THEN "collect" ELSE "augment"

\* the scraper and the classifier are called in a step only for a domain
\* that _is_valid_domain accepted before the step
C9_Step ==
    \A e \in NewCalls :
       e.op \in {"scrape", "classify"} =>
          \E v \in validations :
             v.ok /\ v.domain = e.domain /\ v.stage = ValidatedIn(e.stage)

\* C9: every domain handed to the scraper or to _classify_company was
\* accepted by _is_valid_domain earlier in the run, on the search path and
\* on the fallback path.
C9_OnlyValidatedDomains == [][C9_Step]_vars

\* a run that returned after _is_valid_domain rejected a domain in STAGE 2
\* and one inside the generator, and after scrapes in STAGE 3 and STAGE 4
C9_Witness ==
    /\ Returned
    /\ \A st \in {"classify", "augment"} :
          /\ \E v \in validations : ~v.ok /\ v.stage = ValidatedIn(st)
          /\ \E i \in DOMAIN calls : calls[i].op = "scrape" /\ calls[i].stage = st

\* the fallback generator was called
Invoked == \E i \in DOMAIN calls : calls[i].op = "llm_prospects"

\* the k-th suggestion is already accepted or went through verification
AcceptedOrVerified(k) ==
    \/ \E p \in Range(prospects) : p.domain = llm_prospects[k].domain
    \/ \E i \in DOMAIN calls :
          /\ calls[i].op = "scrape" /\ calls[i].stage = "augment"
          /\ calls[i].domain = llm_prospects[k].domain

\* C10 as stated: the fallback generator is invoked exactly when fewer than
\* 10 Prospects were accepted from the search candidates, and when invoked
\* each suggestion not already accepted is verified before the return.
C10_EverySuggestionVerified ==
    Returned =>
       /\ Invoked <=> accepted < 10
       /\ \A k \in DOMAIN llm_prospects : AcceptedOrVerified(k)

\* C10 amended: the fallback generator is invoked exactly when fewer than
\* 10 Prospects were accepted from the search candidates; when invoked, its
\* suggestions are taken in order and each one not already accepted is
\* verified, until the suggestions end or the list holds 20 Prospects.
C10_VerifiedUntilTarget ==
    Returned =>
       /\ Invoked <=> accepted < 10
       /\ ~Invoked => \A i \in DOMAIN calls : calls[i].stage # "augment"
       /\ \A k \in DOMAIN llm_prospects : k < li => AcceptedOrVerified(k)
       /\ li <= Len(llm_prospects) => Len(prospects) = 20

\* a run that returned with 20 Prospects, the last of them verified
\* suggestions, and suggestions left that were never looked at
C10_Witness ==
    /\ Returned /\ Invoked
    /\ Len(prospects) = 20 /\ verified_count >= 1
    /\ li <= Len(llm_prospects)
    /\ ~AcceptedOrVerified(Len(llm_prospects))

(***************************************************************************)
(* Query generation                                                        *)
(***************************************************************************)
\* STAGE 1 has run: queries holds what _generate_search_queries returned
Generated == pc # "query_gen"

\* the LLM's answer to the query prompt, read back from the call log
QueryResponse == [kind |-> calls[1].outcome, items |-> calls[1].items]

\* C11: _generate_search_queries returns at most 25 queries, whatever the ICP
\* and whatever the LLM answers.
C11_AtMostMaxQueries == Len(queries) <= 25

\* thirty distinct template queries and a usable LLM answer were cut to 25
C11_Witness ==
    /\ Generated
    /\ world.icp = WideIcp
    /\ QueryResponse.kind = "list"
    /\ Len(TemplateQueries(world.icp)) > 25
    /\ Len(queries) = 25

\* str.lower() of one word: only these words hold upper-case letters
LowerWord(w) ==
    CASE w = "USA"     -> "usa"
      [] w = "Retail"  -> "retail"
      [] w = "Leading" -> "leading"
      [] w = "Texas"   -> "texas"
      [] w = "Ohio"    -> "ohio"
      [] w = "Utah"    -> "utah"
      [] w = "Iowa"    -> "iowa"
      [] w = "Maine"   -> "maine"
      [] w = "Idaho"   -> "idaho"
      [] w = "Canada"  -> "canada"
      [] w = "Mexico"  -> "mexico"
      [] w = "Brazil"  -> "brazil"
      [] OTHER         -> w

\* q.lower() of a query
LowerQuery(q) == [i \in 1..Len(q) |-> LowerWord(q[i])]

\* C12: the list _generate_search_queries returns holds no two queries that
\* are equal when letter case is ignored.
C12_NoCaseDuplicates ==
    \A i, j \in 1..Len(queries) :
        i # j => LowerQuery(queries[i]) # LowerQuery(queries[j])

(***************************************************************************)
(* Classification                                                          *)
(***************************************************************************)
\* the i-th call is a call of _classify_company whose LLM call raised or
\* whose answer did not parse
ClassifyFailed(i) ==
    /\ calls[i].op = "classify"
    /\ calls[i].outcome \in {"raise", "nobrace", "badjson"}

\* C13: when the LLM call raises, the answer has no {...} span or the span is
\* not valid JSON, _classify_company returns (and does not raise) the default
\* verdict: is_qualified_prospect false, confidence 0 and a rejection_reason
\* that is not empty.
C13_DefaultVerdictOnFailure ==
    \A i \in DOMAIN calls :
        ClassifyFailed(i) =>
            /\ ~calls[i].q
            /\ calls[i].conf = 0
            /\ calls[i].reason \notin {"absent", "null", "empty"}

\* a step that appends a Prospect gives it the confidence of the verdict
\* returned in that step, divided by 100
C14_Step ==
    Len(prospects') > Len(prospects) =>
        /\ Len(calls') > Len(calls)
        /\ calls'[Len(calls')].op = "classify"
        /\ prospects'[Len(prospects')].confidence =
              [num |-> calls'[Len(calls')].conf, den |-> 100]

\* C14: the confidence of every Prospect is the confidence of the verdict
\* that accepted it divided by 100, on the search path and on the fallback
\* path; the generator's estimated_confidence is never a Prospect's
\* confidence.
C14_ConfidenceFromVerdict ==
    /\ [][C14_Step]_vars
    /\ [](\A k \in DOMAIN result :
            \E i \in DOMAIN calls :
                /\ AcceptingCall(calls[i])
                /\ calls[i].domain = result[k].domain
                /\ result[k].confidence = [num |-> calls[i].conf, den |-> 100])

\* a returned list with a Prospect from search and a verified suggestion
\* whose estimate (capped at 85) is not the confidence it was given
C14_Witness ==
    /\ Returned
    /\ \E k \in DOMAIN result : result[k].source = "web_search_verified"
    /\ \E k \in DOMAIN result, j \in DOMAIN llm_prospects :
          /\ result[k].source = "llm_verified"
          /\ llm_prospects[j].domain = result[k].domain
          /\ llm_prospects[j].confidence = [num |-> 85, den |-> 100]
          /\ result[k].confidence = [num |-> 60, den |-> 100]

(***************************************************************************)
(* The fallback generator                                                  *)
(***************************************************************************)
\* the items of the LLM's answer to the fallback prompt, from the call log
FallbackItems ==
    LET i == CHOOSE i \in DOMAIN calls : calls[i].op = "llm_prospects"
    IN  calls[i].items

\* the item carries a non-empty string as domain and the validator accepts it
UsableDomain(item) ==
    /\ item.domain.k = "str"
    /\ item.domain.v # <<>>
    /\ IsValidDomain(item.domain.v)

\* C15: every entry _generate_prospects_via_llm returns has a domain that
\* _is_valid_domain accepts, taken from an item of the LLM's list; items
\* whose domain is missing, empty or rejected by the validator are discarded.
C15_OnlyValidSuggestions ==
    llm_prospects # <<>> =>
        /\ \A j \in DOMAIN llm_prospects :
              /\ llm_prospects[j].domain # <<>>
              /\ IsValidDomain(llm_prospects[j].domain)
              /\ \E i \in DOMAIN FallbackItems :
                    /\ UsableDomain(FallbackItems[i])
                    /\ FallbackItems[i].domain.v = llm_prospects[j].domain
        /\ Len(llm_prospects) <=
              Cardinality({i \in DOMAIN FallbackItems : UsableDomain(FallbackItems[i])})

\* the generator returned entries from a list that also held an item without
\* a domain, one with an empty domain and one with a rejected domain
C15_Witness ==
    /\ llm_prospects # <<>>
    /\ \E i \in DOMAIN FallbackItems : FallbackItems[i].domain.k = "absent"
    /\ \E i \in DOMAIN FallbackItems :
          FallbackItems[i].domain.k = "str" /\ FallbackItems[i].domain.v = <<>>
    /\ \E i \in DOMAIN FallbackItems :
          /\ FallbackItems[i].domain.k = "str" /\ FallbackItems[i].domain.v # <<>>
          /\ ~IsValidDomain(FallbackItems[i].domain.v)

(***************************************************************************)
(* The CLASSIFY stage                                                      *)
(***************************************************************************)
\* the scrapes of the CLASSIFY stage, in the order they were made
ClassifyScrapes ==
    SelectSeq(calls, LAMBDA e : e.op = "scrape" /\ e.stage = "classify")

\* C16: the CLASSIFY stage processes at most 50 candidates, and those it
\* processes are a prefix of the candidate list in collection order: the
\* k-th candidate scraped is candidates[k], and a candidate is classified
\* only right after its own scrape.
C16_ProcessesPrefix ==
    /\ Len(ClassifyScrapes) <= 50
    /\ Len(ClassifyScrapes) <= Len(candidates)
    /\ processed = Len(ClassifyScrapes)
    /\ \A k \in 1..Len(ClassifyScrapes) :
          ClassifyScrapes[k].domain = candidates[k].domain
    /\ \A i \in DOMAIN calls :
          calls[i].op = "classify" /\ calls[i].stage = "classify" =>
              /\ i > 1
              /\ calls[i - 1].op = "scrape" /\ calls[i - 1].stage = "classify"
              /\ calls[i - 1].domain = calls[i].domain

\* sixty candidates were collected and the run returned after fifty passes
C16_Witness ==
    /\ Returned
    /\ Len(candidates) = 60
    /\ processed = 50
    /\ Len(ClassifyScrapes) = 50

\* once prospects holds 20 entries, a step makes no call for a search
\* candidate
C17_Step ==
    Len(prospects) >= 20 =>
        \A i \in (Len(calls) + 1)..Len(calls') : calls'[i].stage # "classify"

\* C17: the CLASSIFY stage stops once the target of 20 Prospects is reached:
\* after the accepted list holds 20 entries no further search candidate is
\* scraped or classified in that run.
C17_StopsAtTarget == [][C17_Step]_vars

(***************************************************************************)
(* The domain validator                                                    *)
(***************************************************************************)
\* the lower-cased domain holds a blocklist entry as a substring
HitsBlocklist(d) == \E blocked \in BLOCKLIST : Contains(Lower(d), blocked)

\* the lower-cased domain ends with the dotted ending
EndsIn(d, endings) == Len(d) >= 2 /\ Lower(d)[Len(d)] \in endings

\* one of the reasons for which the validator rejects
Rejected(d) ==
    \/ d = <<>>
    \/ StrLen(d) < 4
    \/ HitsBlocklist(d)
    \/ EndsIn(d, {"gov", "edu", "mil"})
    \/ ~EndsIn(d, {"com", "io", "co", "net", "org", "ai", "tech", "us", "ca",
                   "uk", "de", "in", "biz"})

\* C18: _is_valid_domain returns false for a domain that holds a blocklist
\* entry as a substring, that ends with .gov, .edu or .mil, that is empty or
\* shorter than 4 characters, or that does not end with an allowed TLD, and
\* true for every other domain; the answer depends on the domain string
\* alone.
C18_ValidatorRules ==
    /\ \A v \in validations : v.ok <=> ~Rejected(v.domain)
    /\ \A v, w \in validations : v.domain = w.domain => v.ok = w.ok

\* the validator was asked about a domain of three characters with an
\* allowed ending and about a domain that holds a blocklist entry inside a
\* longer name
C18_Witness ==
    /\ [stage |-> "direct", domain |-> <<"", "co">>, ok |-> FALSE] \in validations
    /\ [stage |-> "direct", domain |-> <<"netflix", "com">>, ok |-> FALSE]
          \in validations

(***************************************************************************)
(* The order of the queries                                                *)
(***************************************************************************)
\* _generate_search_queries has just returned
JustGenerated == pc = "collect" /\ qi = 1 /\ Len(calls) = 1

\* template_queries + llm_queries
Combined == TemplateQueries(world.icp) \o LlmGenerateQueries(QueryResponse)

\* where x first occurs in s
FirstIndex(s, x) == CHOOSE i \in 1..Len(s) : s[i] = x /\ \A j \in 1..(i - 1) : s[j] # x

\* C19: the queries returned are the first 25 of the template queries
\* followed by the LLM queries, after every later duplicate is removed:
\* each query is one of the combined list, the queries stand in the order of
\* their first occurrences there (so no query is returned twice, and a
\* template query never stands behind a query only the LLM gave), and only
\* the tail beyond 25 is cut.
C19_TemplatesThenLlm ==
    JustGenerated =>
        /\ \A a \in DOMAIN queries : queries[a] \in Range(Combined)
        /\ \A a, b \in DOMAIN queries :
              a < b => FirstIndex(Combined, queries[a]) < FirstIndex(Combined, queries[b])
        /\ Len(queries) = Min(25, Cardinality(Range(Combined)))
        /\ \A i \in DOMAIN Combined :
              Combined[i] \notin Range(queries) =>
                  \A a \in DOMAIN queries : FirstIndex(Combined, queries[a]) < i
        /\ \A a, b \in DOMAIN queries :
              a < b /\ queries[b] \in Range(TemplateQueries(world.icp)) =>
                  queries[a] \in Range(TemplateQueries(world.icp))

\* eighteen template queries and ten LLM queries, one of them a template
\* query: the duplicate went, LLM queries stand behind the templates and the
\* list was cut to 25
C19_Witness ==
    /\ JustGenerated
    /\ world.icp = MidIcp
    /\ Len(Combined) = 28
    /\ Cardinality(Range(Combined)) = 27
    /\ Len(queries) = 25
    /\ queries[19] \notin Range(TemplateQueries(world.icp))

(***************************************************************************)
(* The LLM's share of the queries                                          *)
(***************************************************************************)
\* the i-th item of the answer is a string of more than 5 characters
Usable(i) ==
    QueryResponse.items[i].str /\ QueryLen(QueryResponse.items[i].text) > 5

\* the i-th item is among the first 10 usable ones
AmongFirstTen(i) ==
    Usable(i) /\ Cardinality({j \in 1..i : Usable(j)}) <= 10

\* the queries are the template queries alone: deduplicated, in order, cut
\* to 25
TemplatesOnly ==
    LET t == TemplateQueries(world.icp)
    IN  /\ \A a \in DOMAIN queries : queries[a] \in Range(t)
        /\ \A a, b \in DOMAIN queries :
              a < b => FirstIndex(t, queries[a]) < FirstIndex(t, queries[b])
        /\ Len(queries) = Min(25, Cardinality(Range(t)))

\* the queries that are no template queries are strings of the answer of
\* more than 5 characters among the first 10 such, and each of those is
\* returned unless the list is full
LlmShareFiltered ==
    /\ \A a \in DOMAIN queries :
          queries[a] \notin Range(TemplateQueries(world.icp)) =>
              \E i \in DOMAIN QueryResponse.items :
                  AmongFirstTen(i) /\ QueryResponse.items[i].text = queries[a]
    /\ \A i \in DOMAIN QueryResponse.items :
          AmongFirstTen(i) =>
              \/ QueryResponse.items[i].text \in Range(queries)
              \/ Len(queries) = 25

\* C20: when the LLM query call raises, or its answer holds no JSON array or
\* a malformed one, the LLM contributes nothing and the queries returned are
\* the deduplicated, truncated template queries; when it succeeds, only its
\* string entries longer than 5 characters are kept, at most 10 of them.
C20_LlmQueriesDegrade ==
    JustGenerated =>
        IF QueryResponse.kind = "list" THEN LlmShareFiltered ELSE TemplatesOnly

\* an answer with a string of 5 characters, a number and more than ten
\* usable strings, of which the ten first are returned behind the templates
C20_Witness ==
    /\ JustGenerated
    /\ world.icp = RetailIcp
    /\ QueryResponse.kind = "list"
    /\ \E i \in DOMAIN QueryResponse.items : ~QueryResponse.items[i].str
    /\ \E i \in DOMAIN QueryResponse.items :
          QueryResponse.items[i].str /\ QueryLen(QueryResponse.items[i].text) = 5
    /\ Cardinality({i \in DOMAIN QueryResponse.items : Usable(i)}) > 10
    /\ Len(queries) = Len(TemplateQueries(world.icp)) + 9

(***************************************************************************)
(* The COLLECT stage                                                       *)
(***************************************************************************)
\* STAGE 2 is over and no exception left find_prospects
Collected == pc \notin {"query_gen", "collect"} /\ ~raised

\* a request of STAGE 2 is for the query the loop stands at; a request that
\* is answered with an HTTP error other than 429, or that raises, adds no
\* Candidate and the loop goes to the next query
C21_Step ==
    pc = "collect" /\ Len(calls') > Len(calls) =>
        /\ Len(calls') = Len(calls) + 1
        /\ calls'[Len(calls')].op = "search"
        /\ calls'[Len(calls')].query = qi
        /\ calls'[Len(calls')].outcome \in {"error", "raise"} =>
              /\ candidates' = candidates
              /\ seen_domains' = seen_domains
              /\ qi' = qi + 1
              /\ pc' = "collect" /\ ~raised'

\* C21: the COLLECT stage has no early exit: every generated query is
\* submitted to the search API, in order, however many Candidates are
\* already collected and whatever happened to earlier queries; a response
\* that is neither 200 nor 429, or a request that raises, gives zero results
\* for that query only.
C21_EveryQuerySearched ==
    /\ [][C21_Step]_vars
    /\ [](Collected =>
            \A k \in DOMAIN queries :
                \E i \in DOMAIN calls : calls[i].op = "search" /\ calls[i].query = k)
    /\ [](\A i, j \in DOMAIN calls :
            i < j /\ calls[i].op = "search" /\ calls[j].op = "search" =>
                calls[i].query <= calls[j].query)

\* the first query failed, the second one was still submitted and gave
\* Candidates
C21_Witness ==
    /\ Collected
    /\ Len(queries) >= 2
    /\ \E i \in DOMAIN calls :
          /\ calls[i].op = "search" /\ calls[i].query = 1
          /\ calls[i].outcome \in {"error", "raise"}
    /\ \E i \in DOMAIN calls :
          calls[i].op = "search" /\ calls[i].query = 2 /\ calls[i].outcome = "ok"
    /\ Len(candidates) >= 1

(***************************************************************************)
(* Classification answers that lack a required key                         *)
(***************************************************************************)
\* the i-th call is a call of _classify_company whose answer parsed as a
\* JSON object without is_qualified_prospect or without confidence
LacksRequired(i) == calls[i].op = "classify" /\ calls[i].missing # {}

\* C22: when the answer parses as JSON but lacks is_qualified_prospect or
\* confidence, _classify_company returns the default rejected verdict:
\* is_qualified_prospect false, confidence 0 and a diagnostic
\* rejection_reason.
C22_MissingFieldGivesDefault ==
    \A i \in DOMAIN calls :
        LacksRequired(i) =>
            /\ ~calls[i].q
            /\ calls[i].conf = 0
            /\ calls[i].reason \notin {"absent", "null", "empty"}

\* a step whose verdict came from an answer lacking a required key adds no
\* Prospect
C22_Step ==
    (Len(calls') > Len(calls) /\ calls'[Len(calls')].op = "classify"
        /\ calls'[Len(calls')].missing # {}) => prospects' = prospects

\* C22 as the code has it: a missing is_qualified_prospect is taken as
\* false and a missing confidence as 50, the other keys stay as the LLM gave
\* them; the verdict is therefore never an accepting one and the company
\* does not become a Prospect.
C22_MissingFieldRejects ==
    /\ [](\A i \in DOMAIN calls :
            LacksRequired(i) =>
                /\ "is_qualified_prospect" \in calls[i].missing => ~calls[i].q
                /\ "confidence" \in calls[i].missing => calls[i].conf = 50
                /\ ~(calls[i].q /\ calls[i].conf >= 60))
    /\ [][C22_Step]_vars

\* one answer said qualified without a confidence, another gave a
\* confidence of 85 without is_qualified_prospect
C22_Witness ==
    /\ \E i \in DOMAIN calls :
          /\ calls[i].op = "classify" /\ calls[i].missing = {"confidence"}
          /\ calls[i].q /\ calls[i].conf = 50
    /\ \E i \in DOMAIN calls :
          /\ calls[i].op = "classify"
          /\ calls[i].missing = {"is_qualified_prospect"}
          /\ calls[i].conf = 85

(***************************************************************************)
(* Scrapes that fail or give too little text                               *)
(***************************************************************************)
\* the scrape raised, returned nothing, or returned fewer than 200
\* characters
FailedScrape(e) ==
    /\ e.op = "scrape"
    /\ \/ e.outcome \in {"raise", "none"}
       \/ e.len < 200

\* a step with such a scrape makes no classification call and adds no
\* Prospect; in STAGE 3 it counts one error, nothing else, and goes to the
\* next candidate; in STAGE 4 the suggestion is not verified
C23_Step ==
    (\E e \in NewCalls : FailedScrape(e)) =>
        /\ Len(calls') = Len(calls) + 1
        /\ prospects' = prospects
        /\ pc = "classify" =>
              /\ rejected_reasons' =
                    [rejected_reasons EXCEPT !["error"] = rejected_reasons["error"] + 1]
              /\ accepted' = accepted
              /\ processed' = processed + 1
              /\ ci' = ci + 1
        /\ pc = "augment" =>
              /\ verified_count' = verified_count
              /\ existing_domains' = existing_domains
              /\ li' = li + 1

\* C23: a candidate whose scrape fails or yields fewer than 200 characters
\* is not passed to the classifier and does not become a Prospect; in the
\* CLASSIFY stage the error counter goes up by exactly one and the loop
\* moves on, in the fallback path the suggestion is not verified.
C23_InsufficientContentSkipped == [][C23_Step]_vars

\* a run with a scrape that returned nothing in STAGE 3 and one of 199
\* characters in STAGE 4
C23_Witness ==
    /\ Returned
    /\ rejected_reasons["error"] >= 1
    /\ \E i \in DOMAIN calls :
          /\ calls[i].op = "scrape" /\ calls[i].stage = "classify"
          /\ calls[i].outcome = "none"
    /\ \E i \in DOMAIN calls :
          /\ calls[i].op = "scrape" /\ calls[i].stage = "augment"
          /\ calls[i].outcome = "dict" /\ calls[i].len = 199

(***************************************************************************)
(* Retries and rejected domains                                            *)
(***************************************************************************)
\* the call is a scrape that failed or a classification that did not accept
EndedBadly(e) ==
    \/ FailedScrape(e)
    \/ e.op = "classify" /\ ~AcceptingCall(e)

\* C24: no retry for scrape or classification failures: once a scrape or a
\* classification of a domain has failed or ended in rejection, the run
\* issues no further scrape or classification call for that domain, also
\* when the fallback generator proposes the domain again or lists it twice.
C24_NoRetryForDomain ==
    \A i, j \in DOMAIN calls :
        (i < j /\ EndedBadly(calls[i]) /\ calls[j].op \in {"scrape", "classify"})
            => calls[j].domain # calls[i].domain

\* C27: a domain the CLASSIFY stage rejected (verdict not qualified,
\* confidence below 60, or scrape failure) is not in the list the same run
\* returns, also when the fallback generator proposes that domain in the
\* AUGMENT stage.
C27_RejectedStaysOut ==
    Returned =>
        \A k \in DOMAIN result :
            ~ \E i \in DOMAIN calls :
                /\ calls[i].stage = "classify"
                /\ calls[i].domain = result[k].domain
                /\ EndedBadly(calls[i])

(***************************************************************************)
(* The caps of the fallback generator                                      *)
(***************************************************************************)
\* C25: every entry _generate_prospects_via_llm returns has a confidence of
\* at most 0.85 (estimated_confidence is capped at 85 before it is divided
\* by 100, and is 70 when absent), and the list has at most count entries;
\* find_prospects asks for count = 20.
C25_SuggestionsCapped ==
    /\ Len(llm_prospects) <= 20
    /\ \A j \in DOMAIN llm_prospects :
          /\ llm_prospects[j].confidence.num * 100 <= 85 * llm_prospects[j].confidence.den
          /\ \A i \in DOMAIN FallbackItems :
                (FallbackItems[i].domain.k = "str"
                   /\ FallbackItems[i].domain.v = llm_prospects[j].domain
                   /\ FallbackItems[i].est.k = "absent"
                   /\ \A h \in DOMAIN FallbackItems :
                         h # i => FallbackItems[h].domain # FallbackItems[i].domain)
                => llm_prospects[j].confidence = [num |-> 70, den |-> 100]

\* the LLM listed 22 valid suggestions with an estimate of 95: 20 were
\* returned, each with 0.85
C25_Witness ==
    /\ Len(llm_prospects) = 20
    /\ Len(FallbackItems) = 22
    /\ \A i \in DOMAIN FallbackItems :
          UsableDomain(FallbackItems[i]) /\ FallbackItems[i].est = [k |-> "num", v |-> 95]
    /\ \A j \in DOMAIN llm_prospects :
          llm_prospects[j].confidence = [num |-> 85, den |-> 100]

(***************************************************************************)
(* The size of the prospect list                                           *)
(***************************************************************************)
\* C26: the accepted-prospect list never holds more than 20 entries, so
\* find_prospects returns at most min(20, SEARCH_MAX_RESULTS) Prospects.
C26_AtMostTwentyProspects ==
    /\ Len(prospects) <= 20
    /\ Returned => Len(result) <= Min(20, world.max_results)

(***************************************************************************)
(* The rejection counters                                                  *)
(***************************************************************************)
\* not_buyer + wrong_industry + wrong_geo + low_confidence + error
RejectedTotal ==
    rejected_reasons["not_buyer"] + rejected_reasons["wrong_industry"]
        + rejected_reasons["wrong_geo"] + rejected_reasons["low_confidence"]
        + rejected_reasons["error"]

\* C28: the accounting of the CLASSIFY stage is exact: after every pass of
\* the loop processed = accepted + (the sum of the five rejection counters),
\* every processed candidate having incremented exactly one of them.
C28_ExactAccounting == processed = accepted + RejectedTotal

(***************************************************************************)
(* The evidence budget                                                     *)
(***************************************************************************)
\* the calls of the log that satisfy ops and stage
CountCalls(ops, stages) ==
    Cardinality({i \in DOMAIN calls : calls[i].op \in ops /\ calls[i].stage \in stages})

\* C29: one run issues at most 70 scrape calls (at most 50 in CLASSIFY and
\* at most 20 in AUGMENT) and at most 72 LLM calls (1 for the queries, at
\* most 50 classifications, 1 fallback generation, at most 20 verification
\* classifications), whatever the collaborators return.
C29_CallBudget ==
    /\ CountCalls({"scrape"}, {"classify"}) <= 50
    /\ CountCalls({"scrape"}, {"augment"}) <= 20
    /\ CountCalls({"llm_queries"}, {"query_gen"}) <= 1
    /\ CountCalls({"classify"}, {"classify"}) <= 50
    /\ CountCalls({"llm_prospects"}, {"augment"}) <= 1
    /\ CountCalls({"classify"}, {"augment"}) <= 20
    /\ CountCalls({"scrape"}, {"query_gen", "collect", "classify", "augment"}) <= 70
    /\ CountCalls({"llm_queries", "classify", "llm_prospects"},
                  {"query_gen", "collect", "classify", "augment"}) <= 72

\* a run that spent the whole budget: 70 scrapes and 72 LLM calls
C29_Witness ==
    /\ Returned
    /\ CountCalls({"scrape"}, {"classify", "augment"}) = 70
    /\ CountCalls({"llm_queries", "classify", "llm_prospects"},
                  {"query_gen", "classify", "augment"}) = 72

(***************************************************************************)
(* The stability of the ranking                                            *)
(***************************************************************************)
\* the accepting verdicts in the order they were returned: the order in
\* which the Prospects were accepted
AcceptanceOrder == SelectSeq(calls, LAMBDA e : AcceptingCall(e))

\* the place of the i-th accepted Prospect in a stable descending ranking:
\* behind every Prospect of a higher confidence and every earlier one of the
\* same confidence
StableRank(i) ==
    1 + Cardinality({j \in DOMAIN AcceptanceOrder :
                        \/ AcceptanceOrder[j].conf > AcceptanceOrder[i].conf
                        \/ /\ AcceptanceOrder[j].conf = AcceptanceOrder[i].conf
                           /\ j < i})

\* C30: the final ranking is stable: Prospects of equal confidence keep
\* their order of acceptance, so a web_search_verified Prospect precedes an
\* llm_verified one of the same confidence and ties from search stay in
\* collection order; the cut to SEARCH_MAX_RESULTS drops the latest accepted
\* of the lowest confidence first.
C30_StableRanking ==
    Returned =>
        /\ Len(result) = Min(Len(AcceptanceOrder), world.max_results)
        /\ \A i \in DOMAIN AcceptanceOrder :
              StableRank(i) <= world.max_results =>
                  /\ result[StableRank(i)].domain = AcceptanceOrder[i].domain
                  /\ result[StableRank(i)].confidence =
                        [num |-> AcceptanceOrder[i].conf, den |-> 100]
                  /\ result[StableRank(i)].source =
                        IF AcceptanceOrder[i].stage = "classify"
                        THEN "web_search_verified" ELSE "llm_verified"

\* three Prospects of confidence 0.6, one from search and two verified
\* suggestions, with SEARCH_MAX_RESULTS = 2: the search Prospect is first,
\* the first suggestion second, the last accepted is dropped
C30_Witness ==
    /\ Returned
    /\ world.max_results = 2
    /\ Len(AcceptanceOrder) = 3
    /\ \A i \in DOMAIN AcceptanceOrder : AcceptanceOrder[i].conf = 60
    /\ AcceptanceOrder[1].stage = "classify"
    /\ Len(result) = 2
    /\ result[1].source = "web_search_verified"
    /\ result[2].source = "llm_verified"
    /\ result[2].domain = AcceptanceOrder[2].domain
====
